---- MODULE Spec2Model ----
(***************************************************************************)
(* Authentication and session subsystem of EchoOS                          *)
(* (modules/auth.py: class Authenticator) together with the part of the    *)
(* main window (modules/ui.py: class EchoMainWindow) that drives it and    *)
(* hands commands to the executor.                                         *)
(*                                                                         *)
(* Time is counted in minutes.  Similarities and thresholds are written in *)
(* hundredths (1.0 is 100).  Python's None is the empty tuple and a        *)
(* present value x is <<x>>, so that "" and None stay distinct.            *)
(***************************************************************************)
EXTENDS Integers, Sequences, FiniteSets, TLC

\* ---------------------------------------------------------------- bounds
MaxTicks == 2
MaxSessions == 2
MaxUsers == 2
MaxKeys == 2

\* ------------------------------------------------------ program constants
session_timeout == 30
DefaultThreshold == 75
SilenceFloor == 10

\* ------------------------------------------------------------ input sets
None == <<>>
Some(x) == <<x>>

\* register_user takes any string, the empty one included.
Names == {"", "alice", "bob"}
Passwords == {"", "Secret1", "secret1"}
Thresholds == {-100, 0, DefaultThreshold, 100}
TickSteps == {1, session_timeout}

\* Unit-length embeddings, coordinates scaled by 10.
Embeddings == {<<10, 0>>, <<8, 6>>, <<0, 10>>, <<-10, 0>>}

\* The voices that enroll (a subset keeps the store small).
EnrollEmbeddings == {<<10, 0>>, <<8, 6>>}

\* max(|audio|) of a capture in units of 1e-4 (0.001 is 10).
Levels == {0, 9, 10}

\* What one capture-and-embed attempt can deliver: the device raises, or a
\* recording with a peak level whose embedding is emb (or the encoder raises).
Capture(device_ok, max_level, encoder_ok, emb) ==
  [device_ok |-> device_ok, max_level |-> max_level, encoder_ok |-> encoder_ok, emb |-> emb]

Good(emb) == Capture(TRUE, SilenceFloor, TRUE, emb)

BadCaptures ==
  {Capture(FALSE, 0, FALSE, <<0, 0>>), Capture(TRUE, SilenceFloor, FALSE, <<0, 0>>)}
  \cup {Capture(TRUE, l, TRUE, <<10, 0>>) : l \in Levels \ {SilenceFloor}}

Captures == BadCaptures \cup {Good(e) : e \in Embeddings}
EnrollCaptures == BadCaptures \cup {Good(e) : e \in EnrollEmbeddings}

VARIABLES users, sessions, current_user, voice_auth_enabled, cipher_key,
          users_file, sessions_file, key_file, torn, clock, ticks, call,
          ui_is_authenticated, ui_is_listening, buttons, stt_is_listening,
          worker, pending, enrolling, sweep

\* key_file is the content of config/.key (None when the file is gone); torn
\* names the store files ("users", "sessions") that hold a partial write.
authVars == <<users, sessions, current_user, voice_auth_enabled, cipher_key,
              users_file, sessions_file, key_file, torn>>
timeVars == <<clock, ticks>>
uiVars == <<ui_is_authenticated, ui_is_listening, buttons, stt_is_listening,
           worker, pending, enrolling, sweep>>
vars == <<users, sessions, current_user, voice_auth_enabled, cipher_key,
          users_file, sessions_file, key_file, torn, clock, ticks, call,
          ui_is_authenticated, ui_is_listening, buttons, stt_is_listening,
          worker, pending, enrolling, sweep>>

\* ------------------------------------------------------- python helpers
\* bool(x) of an Optional[str]: None and "" are falsy.
Truthy(opt) == opt # None /\ opt[1] # ""

\* The users dict: a sequence of records in insertion order.
UserNames(us) == {us[i].name : i \in 1..Len(us)}
HasUser(us, n) == n \in UserNames(us)
IndexOf(us, n) == CHOOSE i \in 1..Len(us) : us[i].name = n
GetUser(us, n) == us[IndexOf(us, n)]
DelUser(us, n) == SelectSeq(us, LAMBDA r : r.name # n)
SetLastLogin(us, n, t) ==
  [i \in 1..Len(us) |-> IF us[i].name = n THEN [us[i] EXCEPT !.last_login = Some(t)] ELSE us[i]]

\* str.encode(): the UTF-8 bytes of a string, from its code points.
CodePoints(p) ==
  CASE p = "" -> <<>>
    [] p = "Secret1" -> <<83, 101, 99, 114, 101, 116, 49>>
    [] p = "secret1" -> <<115, 101, 99, 114, 101, 116, 49>>

Utf8Char(c) ==
  IF c < 128 THEN <<c>>
  ELSE IF c < 2048 THEN <<192 + (c \div 64), 128 + (c % 64)>>
  ELSE <<224 + (c \div 4096), 128 + ((c \div 64) % 64), 128 + (c % 64)>>

RECURSIVE Utf8Bytes(_)
Utf8Bytes(cps) == IF cps = <<>> THEN <<>> ELSE Utf8Char(Head(cps)) \o Utf8Bytes(Tail(cps))

Encode(p) == Utf8Bytes(CodePoints(p))

\* hashlib.sha256(data).hexdigest(): a collision-free digest of its input.
Sha256Hex(data) == [sha256 |-> data]

HashPassword(password) == Sha256Hex(Encode(password))

\* np.dot of two embeddings (hundredths, the coordinates being tenths).
Dot(a, b) == a[1] * b[1] + a[2] * b[2]

\* Fernet: a token opens only under the key that sealed it, and only intact.
Encrypt(key, data) == [key |-> key, intact |-> TRUE, data |-> data]
Decrypt(key, token) == IF token.key = key /\ token.intact THEN Some(token.data) ELSE None

\* ------------------------------------------------- record_voice_sample
\* A recorder without the silence check: whatever the device delivers is a sample.
RecordVoiceSampleAnyLevel(enabled, cap) ==
  IF ~enabled THEN None
  ELSE IF ~cap.device_ok THEN None
  ELSE Some(cap)

RecordVoiceSample(enabled, cap) ==
  IF ~enabled THEN None
  ELSE IF ~cap.device_ok THEN None
  ELSE IF cap.max_level < SilenceFloor THEN None
  ELSE Some(cap)

\* ------------------------------------------------------- register_user
VoiceRecord(username, emb, now) ==
  [name |-> username, auth_type |-> "voice", embedding |-> Some(emb),
   password_hash |-> None, created_at |-> now, last_login |-> None]

PasswordRecord(username, password, now) ==
  [name |-> username, auth_type |-> "password", embedding |-> None,
   password_hash |-> Some(HashPassword(password)), created_at |-> now, last_login |-> None]

\* self.users[username] = record: in place when the key exists, else at the end.
PutUser(us, rec) ==
  IF HasUser(us, rec.name)
    THEN [i \in 1..Len(us) |-> IF us[i].name = rec.name THEN rec ELSE us[i]]
    ELSE Append(us, rec)

\* The try block of register_user (lines 225-287).
RegisterBody(us, enabled, username, password, cap, now) ==
  IF enabled /\ password = None
    THEN IF RecordVoiceSample(enabled, cap) = None
           THEN [users |-> us, saved |-> FALSE, ok |-> FALSE, log |-> "no audio"]
         ELSE IF ~cap.encoder_ok
           THEN [users |-> us, saved |-> FALSE, ok |-> FALSE, log |-> "error: encoder"]
         ELSE [users |-> PutUser(us, VoiceRecord(username, cap.emb, now)),
               saved |-> TRUE, ok |-> TRUE, log |-> "registered voice"]
  ELSE IF Truthy(password)
    THEN [users |-> PutUser(us, PasswordRecord(username, password[1], now)),
          saved |-> TRUE, ok |-> TRUE, log |-> "registered password"]
  ELSE [users |-> us, saved |-> FALSE, ok |-> FALSE, log |-> "no method"]

\* A register_user without its first check: the record of a taken name is overwritten.
RegisterOverwrites(us, enabled, username, password, cap, now) ==
  RegisterBody(us, enabled, username, password, cap, now)

\* The outcome of register_user(username, password) on store us at time now.
RegisterOutcome(us, enabled, username, password, cap, now) ==
  IF HasUser(us, username)
    THEN [users |-> us, saved |-> FALSE, ok |-> FALSE, log |-> "already exists"]
    ELSE RegisterBody(us, enabled, username, password, cap, now)

\* ----------------------------------------------------- _create_session
\* f"{username}{datetime.now()}": the name followed by the clock reading.
FString(username, t) == <<username, t>>

SessionId(username, t) == Sha256Hex(FString(username, t))

\* The three clock readings of _create_session are t[1] (session id),
\* t[2] (created_at) and t[3] (the base of expires_at).
SessionData(username, t) ==
  [username |-> username, created_at |-> t[2], expires_at |-> t[3] + session_timeout]

\* The sessions dict after _create_session(username): sessions[session_id] = token.
CreateSession(ss, key, username, t) ==
  LET session_id == SessionId(username, t[1])
      encrypted_data == Encrypt(key, SessionData(username, t))
  IN [k \in DOMAIN ss \cup {session_id} |->
        IF k = session_id THEN encrypted_data ELSE ss[k]]

\* _create_session has no return statement.
CreateSessionReturn(username, t) == None

\* -------------------------------------------------------- authenticate
\* The loop over self.users.items() from index i on (lines 356-371).
RECURSIVE MatchLoop(_, _, _, _, _)
MatchLoop(us, test_embedding, i, best_match, best_similarity) ==
  IF i > Len(us)
    THEN [best_match |-> best_match, best_similarity |-> best_similarity]
  ELSE IF us[i].auth_type # "voice"
    THEN MatchLoop(us, test_embedding, i + 1, best_match, best_similarity)
  ELSE IF us[i].embedding = None
    THEN MatchLoop(us, test_embedding, i + 1, best_match, best_similarity)
  ELSE LET similarity == Dot(test_embedding, us[i].embedding[1]) IN
       IF similarity > best_similarity
         THEN MatchLoop(us, test_embedding, i + 1, Some(us[i].name), similarity)
         ELSE MatchLoop(us, test_embedding, i + 1, best_match, best_similarity)

\* A loop that replaces the best match on an equal score: the last maximum wins.
RECURSIVE MatchLoopLastWins(_, _, _, _, _)
MatchLoopLastWins(us, test_embedding, i, best_match, best_similarity) ==
  IF i > Len(us)
    THEN [best_match |-> best_match, best_similarity |-> best_similarity]
  ELSE IF us[i].auth_type # "voice" \/ us[i].embedding = None
    THEN MatchLoopLastWins(us, test_embedding, i + 1, best_match, best_similarity)
  ELSE LET similarity == Dot(test_embedding, us[i].embedding[1]) IN
       IF similarity >= best_similarity
         THEN MatchLoopLastWins(us, test_embedding, i + 1, Some(us[i].name), similarity)
         ELSE MatchLoopLastWins(us, test_embedding, i + 1, best_match, best_similarity)

BestMatchLastWins(us, test_embedding) == MatchLoopLastWins(us, test_embedding, 1, None, 0)

\* A matcher that starts from the first record instead of from no match.
BestMatchFromFirst(us, test_embedding) ==
  MatchLoop(us, test_embedding, 1, IF us = <<>> THEN None ELSE Some(us[1].name), 0)

BestMatch(us, test_embedding) == MatchLoop(us, test_embedding, 1, None, 0)

\* What an authenticate call leaves behind; s is the state it started in.
Failed(s, log) ==
  [users |-> s.users, sessions |-> s.sessions, current_user |-> s.current_user,
   saved_users |-> FALSE, saved_sessions |-> FALSE, ret |-> None, log |-> log]

\* The success path (lines 321-328 and 378-388): t[1] stamps last_login,
\* the other readings go to _create_session.
Succeeded(s, username, t, log) ==
  [users |-> SetLastLogin(s.users, username, t[1]),
   sessions |-> CreateSession(s.sessions, s.key, username, Tail(t)),
   current_user |-> Some(username),
   saved_users |-> TRUE, saved_sessions |-> TRUE, ret |-> Some(username), log |-> log]

\* The voice branch (lines 335-398).
VoiceOutcome(s, threshold, cap, t) ==
  IF ~s.enabled THEN Failed(s, "voice not available")
  ELSE IF RecordVoiceSample(s.enabled, cap) = None THEN Failed(s, "no audio")
  ELSE IF ~cap.encoder_ok THEN Failed(s, "error: encoder")
  ELSE LET m == BestMatch(s.users, cap.emb) IN
       IF m.best_similarity >= threshold
         THEN IF m.best_match = None
                \* current_user = None, then self.users[None] raises KeyError
                THEN [Failed(s, "error: KeyError") EXCEPT !.current_user = None]
                ELSE Succeeded(s, m.best_match[1], t, "welcome voice")
         ELSE Failed(s, "similarity too low")

\* authenticate(username, password, threshold) (lines 303-403).
AuthenticateOutcome(s, username, password, threshold, cap, t) ==
  IF s.users = <<>> THEN Failed(s, "no users")
  ELSE IF Truthy(username) /\ Truthy(password)
    THEN IF ~HasUser(s.users, username[1]) THEN Failed(s, "not found")
         ELSE IF GetUser(s.users, username[1]).auth_type = "password"
           THEN IF Some(HashPassword(password[1])) = GetUser(s.users, username[1]).password_hash
                  THEN Succeeded(s, username[1], t, "welcome password")
                  ELSE Failed(s, "invalid password")
         ELSE VoiceOutcome(s, threshold, cap, t)
  ELSE VoiceOutcome(s, threshold, cap, t)

\* ------------------------------------------- cleanup_expired_sessions
\* A sweep that also takes the records expiring at this very reading.
ExpiredIdsInclusive(ss, key, now) ==
  {k \in DOMAIN ss :
     LET session_data == Decrypt(key, ss[k]) IN
     \/ session_data = None
     \/ session_data[1].expires_at <= now}

\* A sweep that stops at the first record it finds expired or unreadable.
ExpiredIdsFirstOnly(ss, key, now) ==
  LET all == {k \in DOMAIN ss :
                LET session_data == Decrypt(key, ss[k]) IN
                \/ session_data = None
                \/ session_data[1].expires_at < now}
  IN IF all = {} THEN {} ELSE {CHOOSE k \in all : TRUE}

ExpiredIds(ss, key, now) ==
  {k \in DOMAIN ss :
     LET session_data == Decrypt(key, ss[k]) IN
     \/ session_data = None
     \/ session_data[1].expires_at < now}

Without(ss, expired) == [k \in DOMAIN ss \ expired |-> ss[k]]

\* ------------------------------------------------ attribute lookup
\* The attributes an Authenticator instance offers to a caller.
AuthenticatorMethods ==
  {"_get_or_create_key", "_load_users", "_save_users", "_load_sessions",
   "_save_sessions", "record_voice_sample", "register_user", "authenticate",
   "_create_session", "logout", "is_authenticated", "get_current_user",
   "cleanup_expired_sessions", "list_users", "delete_user",
   "is_voice_auth_available"}

\* ------------------------------------------------------------ the state
\* The threads _register_user starts, and a thread that is not running.
Threads == {1, 2}
\* The frame of cleanup_expired_sessions on the main thread, and no sweep
\* running: now, the size the items() iterator saw when it was created, the
\* ids it still has to yield, the expired list, the store it started from.
SweepFrame(pc, now, size, todo, expired, before) ==
  [pc |-> pc, now |-> now, size |-> size, todo |-> todo, expired |-> expired,
   before |-> before]
NoSweep == SweepFrame("idle", 0, 0, {}, {}, <<>>)
NoWorker == [pc |-> "idle", overtaken |-> FALSE]
NoEnroll == [pc |-> "none", username |-> "", emb |-> <<0, 0>>, ok |-> FALSE]

st ==
  [users |-> users, sessions |-> sessions, current_user |-> current_user,
   key |-> cipher_key, enabled |-> voice_auth_enabled]

is_authenticated == current_user # None

\* What a caller can tell apart before and after a call.
Snapshot ==
  [users |-> users, sessions |-> sessions, current_user |-> current_user,
   users_file |-> users_file, sessions_file |-> sessions_file, clock |-> clock]

NoSnapshot ==
  [users |-> <<>>, sessions |-> <<>>, current_user |-> None,
   users_file |-> <<>>, sessions_file |-> <<>>, clock |-> 0]

NoCapture == Capture(FALSE, 0, FALSE, <<0, 0>>)

Args(username, password, threshold, cap, t) ==
  [username |-> username, password |-> password, threshold |-> threshold,
   cap |-> cap, t |-> t]

NoArgs == Args(None, None, 0, NoCapture, <<>>)

\* The caller's frame: the call that has just returned (or raised), with its
\* arguments, its result and the state it was made in; Idle between calls.
Idle ==
  [pc |-> "idle", op |-> "", args |-> NoArgs, ok |-> FALSE, ret |-> None,
   log |-> "", raised |-> "", pre |-> NoSnapshot]

Returned(op, args, ok, ret, log, raised) ==
  [pc |-> "done", op |-> op, args |-> args, ok |-> ok, ret |-> ret,
   log |-> log, raised |-> raised, pre |-> Snapshot]

\* Clock readings of n successive datetime.now() calls: the clock may move
\* on by a minute between two of them.
RECURSIVE ReadsFrom(_, _, _)
ReadsFrom(c, n, budget) ==
  IF n = 0 THEN {<<>>}
  ELSE {<<c>> \o r : r \in ReadsFrom(c, n - 1, budget)}
       \cup (IF budget > 0 /\ n > 1
               THEN {<<c>> \o r : r \in ReadsFrom(c + 1, n - 1, budget - 1)}
               ELSE {})

Reads(n) == ReadsFrom(clock, n, MaxTicks - ticks)

\* The same readings when the clock does not move during the call.
Instant(n) == {[i \in 1..n |-> clock]}

Advance(t) ==
  /\ clock' = t
  /\ ticks' = ticks + (IF t - clock >= session_timeout THEN 1 ELSE t - clock)

Init ==
  /\ users = <<>>
  /\ sessions = <<>>
  /\ current_user = None
  /\ voice_auth_enabled \in BOOLEAN
  /\ cipher_key = 1
  /\ users_file = <<>>
  /\ sessions_file = <<>>
  /\ key_file = Some(1)
  /\ torn = {}
  /\ clock = 0
  /\ ticks = 0
  /\ call = Idle
  /\ ui_is_authenticated = FALSE
  /\ ui_is_listening = FALSE
  /\ buttons = [register |-> TRUE, login |-> TRUE, logout |-> FALSE,
                start |-> FALSE, stop |-> FALSE]
  /\ stt_is_listening = FALSE
  /\ worker = [t \in Threads |-> NoWorker]
  /\ pending = 0
  /\ enrolling = [t \in Threads |-> NoEnroll]
  /\ sweep = NoSweep

\* ------------------------------------------------- the Authenticator
\* register_user(username, password) (lines 208-287).
RegisterUserCall(username, password, cap) ==
  \E o \in {RegisterOutcome(users, voice_auth_enabled, username, password, cap, clock)} :
  /\ Len(o.users) <= MaxUsers
  /\ users' = o.users
  /\ users_file' = IF o.saved THEN o.users ELSE users_file
  /\ torn' = IF o.saved THEN torn \ {"users"} ELSE torn
  /\ call' = Returned("register_user", Args(Some(username), password, 0, cap, <<>>),
                      o.ok, None, o.log, "")
  /\ UNCHANGED <<sessions, current_user, voice_auth_enabled, cipher_key,
                 sessions_file, key_file, timeVars>>

\* authenticate(username, password, threshold) (lines 289-403).
AuthenticateCall(username, password, threshold, cap, t) ==
  \E o \in {AuthenticateOutcome(st, username, password, threshold, cap, t)} :
  /\ Cardinality(DOMAIN o.sessions) <= MaxSessions
  /\ users' = o.users
  /\ sessions' = o.sessions
  /\ current_user' = o.current_user
  /\ users_file' = IF o.saved_users THEN o.users ELSE users_file
  /\ sessions_file' = IF o.saved_sessions THEN o.sessions ELSE sessions_file
  /\ torn' = (torn \ (IF o.saved_users THEN {"users"} ELSE {}))
                \ (IF o.saved_sessions THEN {"sessions"} ELSE {})
  /\ Advance(IF o.ret # None THEN t[4] ELSE clock)
  /\ call' = Returned("authenticate", Args(username, password, threshold, cap, t),
                      o.ret # None, o.ret, o.log, "")
  /\ UNCHANGED <<voice_auth_enabled, cipher_key, key_file>>

\* _create_session(username) (lines 405-419), called directly.
CreateSessionCall(username, t) ==
  \E ss \in {CreateSession(sessions, cipher_key, username, t)} :
  /\ Cardinality(DOMAIN ss) <= MaxSessions
  /\ sessions' = ss
  /\ sessions_file' = ss
  /\ torn' = torn \ {"sessions"}
  /\ Advance(t[3])
  /\ call' = Returned("_create_session", Args(Some(username), None, 0, NoCapture, t),
                      CreateSessionReturn(username, t) # None,
                      CreateSessionReturn(username, t), "session created", "")
  /\ UNCHANGED <<users, current_user, voice_auth_enabled, cipher_key, users_file,
                 key_file>>

\* auth.validate_session(session_id), as tests/test_auth.py calls it.
ValidateSessionCall(username, t) ==
  /\ call' = IF "validate_session" \in AuthenticatorMethods
               THEN Returned("validate_session", Args(Some(username), None, 0, NoCapture, <<t>>),
                             SessionId(username, t) \in DOMAIN sessions, None, "", "")
               ELSE Returned("validate_session", Args(Some(username), None, 0, NoCapture, <<t>>),
                             FALSE, None, "", "AttributeError")
  /\ UNCHANGED <<authVars, timeVars>>

\* logout() (lines 421-426).
LogoutCall ==
  /\ current_user' = IF Truthy(current_user) THEN None ELSE current_user
  /\ call' = Returned("logout", NoArgs, FALSE, None, "", "")
  /\ UNCHANGED <<users, sessions, voice_auth_enabled, cipher_key, users_file,
                 sessions_file, key_file, torn, timeVars>>

\* cleanup_expired_sessions has no return statement.
CleanupReturn(expired) == None

\* cleanup_expired_sessions() (lines 436-455) reading the clock as now.
CleanupAt(now, op) ==
  \E expired \in {ExpiredIds(sessions, cipher_key, now)} :
  /\ sessions' = Without(sessions, expired)
  /\ sessions_file' = IF expired # {} THEN Without(sessions, expired) ELSE sessions_file
  /\ torn' = IF expired # {} THEN torn \ {"sessions"} ELSE torn
  /\ Advance(now)
  /\ call' = Returned(op, Args(None, None, 0, NoCapture, <<now>>),
                      CleanupReturn(expired) # None, CleanupReturn(expired), "", "")
  /\ UNCHANGED <<users, current_user, voice_auth_enabled, cipher_key, users_file, key_file>>

CleanupCall == CleanupAt(clock, "cleanup_expired_sessions")

\* A delete_user that forgets to save.
DeleteUserNoSave(username) ==
  /\ users' = DelUser(users, username)
  /\ call' = Returned("delete_user", Args(Some(username), None, 0, NoCapture, <<>>),
                      HasUser(users, username), None,
                      IF HasUser(users, username) THEN "deleted" ELSE "not found", "")
  /\ UNCHANGED <<sessions, current_user, voice_auth_enabled, cipher_key, users_file,
                 sessions_file, key_file, torn, timeVars>>

\* delete_user(username) (lines 461-470).
DeleteUserCall(username) ==
  /\ users' = DelUser(users, username)
  /\ users_file' = IF HasUser(users, username) THEN DelUser(users, username) ELSE users_file
  /\ torn' = IF HasUser(users, username) THEN torn \ {"users"} ELSE torn
  /\ call' = Returned("delete_user", Args(Some(username), None, 0, NoCapture, <<>>),
                      HasUser(users, username), None,
                      IF HasUser(users, username) THEN "deleted" ELSE "not found", "")
  /\ UNCHANGED <<sessions, current_user, voice_auth_enabled, cipher_key,
                 sessions_file, key_file, timeVars>>

\* ------------------------------------- one caller, one call at a time
RegisterUser(username, password, cap) ==
  call.pc = "idle" /\ RegisterUserCall(username, password, cap) /\ UNCHANGED uiVars

Authenticate(username, password, threshold, cap, t) ==
  call.pc = "idle" /\ AuthenticateCall(username, password, threshold, cap, t)
  /\ UNCHANGED uiVars

CreateSessionDirect(username, t) ==
  call.pc = "idle" /\ CreateSessionCall(username, t) /\ UNCHANGED uiVars

ValidateSession(username, t) ==
  call.pc = "idle" /\ ValidateSessionCall(username, t) /\ UNCHANGED uiVars

Logout == call.pc = "idle" /\ LogoutCall /\ UNCHANGED uiVars

CleanupExpiredSessions == call.pc = "idle" /\ CleanupCall /\ UNCHANGED uiVars

DeleteUser(username) == call.pc = "idle" /\ DeleteUserCall(username) /\ UNCHANGED uiVars

\* The caller has looked at the result and is ready for its next call.
Return ==
  /\ call.pc = "done"
  /\ call' = Idle
  /\ UNCHANGED <<authVars, timeVars, uiVars>>

\* Time passes between two calls.
Tick(d) ==
  /\ call.pc = "idle"
  /\ ticks < MaxTicks
  /\ Advance(clock + d)
  /\ UNCHANGED <<authVars, call, uiVars>>

OptNames == {None, Some("")} \cup {Some(n) : n \in Names}
OptPasswords == {None} \cup {Some(p) : p \in Passwords}
EnrollPasswords == {Some(""), Some("Secret1")}

\* The calls of register_user that are tried: a voice enrollment with every
\* capture, a password enrollment with a capture that would have worked.
RegisterInputs ==
  {<<n, None, c>> : n \in Names, c \in EnrollCaptures}
  \cup {<<n, p, Good(<<10, 0>>)>> : n \in Names, p \in EnrollPasswords}

\* The calls of authenticate that are tried: every name and password with the
\* default threshold and a clean capture, and every threshold and capture
\* with neither name nor password.
AuthInputs ==
  {<<n, p, DefaultThreshold, Good(e)>> :
     n \in OptNames, p \in OptPasswords, e \in {<<10, 0>>, <<0, 10>>}}
  \cup {<<n, p, th, c>> : n \in {None}, p \in {None, Some("")}, th \in Thresholds, c \in Captures}

\* Calls made by one caller, one after the other, within one clock reading.
Next ==
  \/ \E i \in RegisterInputs : RegisterUser(i[1], i[2], i[3])
  \/ \E i \in AuthInputs, t \in Instant(4) : Authenticate(i[1], i[2], i[3], i[4], t)
  \/ \E n \in Names, t \in Instant(3) : CreateSessionDirect(n, t)
  \/ \E n \in Names : ValidateSession(n, clock)
  \/ Logout
  \/ CleanupExpiredSessions
  \/ \E n \in Names : DeleteUser(n)
  \/ Return

Spec == Init /\ [][Next]_vars

\* ---------------------------------------- an installation without Resemblyzer
\* Password accounts only, and the clock moves between and during the calls.
TimedNames == {"alice", "bob"}

InitTimed == Init /\ ~voice_auth_enabled

NextTimed ==
  \/ \E d \in TickSteps : Tick(d)
  \/ \E n \in TimedNames : RegisterUser(n, Some("Secret1"), NoCapture)
  \/ \E n \in TimedNames, p \in {"Secret1", "secret1"}, t \in Reads(4) :
       Authenticate(Some(n), Some(p), DefaultThreshold, NoCapture, t)
  \/ \E n \in TimedNames, t \in Reads(3) : CreateSessionDirect(n, t)
  \/ \E n \in TimedNames, t \in {0, clock} : ValidateSession(n, t)
  \/ Logout
  \/ CleanupExpiredSessions
  \/ \E n \in TimedNames : DeleteUser(n)
  \/ Return

SpecTimed == InitTimed /\ [][NextTimed]_vars

\* ------------------------------------------- restarts, crashes, the disk
\* A key routine that generates a key on every start.
GetOrCreateKeyAlwaysFresh(kf, fresh) == fresh

\* _get_or_create_key (lines 74-84): the key of config/.key, or a newly
\* generated one (fresh) when the file is not there.
GetOrCreateKey(kf, fresh) == IF kf # None THEN kf[1] ELSE fresh

\* _load_users / _load_sessions (lines 86-94, 106-114): the pickled store, or
\* {} when pickle.load raises on a partial file.
LoadUsers == IF "users" \in torn THEN <<>> ELSE users_file
LoadSessions == IF "sessions" \in torn THEN <<>> ELSE sessions_file

\* The process ends (or has crashed) and a new Authenticator is constructed
\* over the same files (__init__, lines 34-72).
Restart ==
  /\ call.pc \in {"idle", "crashed"}
  /\ current_user' = None
  /\ cipher_key' = GetOrCreateKey(key_file, cipher_key + 1)
  /\ key_file' = Some(GetOrCreateKey(key_file, cipher_key + 1))
  /\ users' = LoadUsers
  /\ sessions' = LoadSessions
  /\ call' = Returned("__init__", NoArgs, call.pc = "crashed", None, call.op, "")
  /\ UNCHANGED <<voice_auth_enabled, users_file, sessions_file, torn, timeVars, uiVars>>

\* config/.key is removed while the program is running or stopped.
KeyFileRemoved ==
  /\ call.pc = "idle"
  /\ key_file # None
  /\ cipher_key < MaxKeys
  /\ key_file' = None
  /\ UNCHANGED <<users, sessions, current_user, voice_auth_enabled, cipher_key,
                 users_file, sessions_file, torn, timeVars, call, uiVars>>

\* Bytes of one token in config/sessions.pkl are altered on disk.
SessionRecordAltered(k) ==
  /\ call.pc = "idle"
  /\ "sessions" \notin torn
  /\ k \in DOMAIN sessions_file
  /\ sessions_file[k].intact
  /\ sessions_file' = [sessions_file EXCEPT ![k].intact = FALSE]
  /\ UNCHANGED <<users, sessions, current_user, voice_auth_enabled, cipher_key,
                 users_file, key_file, torn, timeVars, call, uiVars>>

\* The frame of a call the process died in.
Crashed(op, args) == [Returned(op, args, FALSE, None, "", "") EXCEPT !.pc = "crashed"]

\* register_user dies inside _save_users (lines 96-104): the file was opened
\* with 'wb', which empties it, and pickle.dump did not finish.
RegisterUserCrash(username, password, cap) ==
  \E o \in {RegisterOutcome(users, voice_auth_enabled, username, password, cap, clock)} :
  /\ call.pc = "idle"
  /\ o.saved
  /\ Len(o.users) <= MaxUsers
  /\ users' = o.users
  /\ torn' = torn \cup {"users"}
  /\ call' = Crashed("register_user", Args(Some(username), password, 0, cap, <<>>))
  /\ UNCHANGED <<sessions, current_user, voice_auth_enabled, cipher_key, users_file,
                 sessions_file, key_file, timeVars, uiVars>>

\* A successful authenticate dies inside _save_users (where = "users") or,
\* after it, inside the _save_sessions of _create_session (where = "sessions").
AuthenticateCrash(username, password, threshold, cap, t, where) ==
  \E o \in {AuthenticateOutcome(st, username, password, threshold, cap, t)} :
  /\ call.pc = "idle"
  /\ o.saved_users /\ o.saved_sessions
  /\ Cardinality(DOMAIN o.sessions) <= MaxSessions
  /\ users' = o.users
  /\ current_user' = o.current_user
  /\ IF where = "users"
       THEN /\ torn' = torn \cup {"users"}
            /\ UNCHANGED <<sessions, users_file, sessions_file>>
       ELSE /\ users_file' = o.users
            /\ sessions' = o.sessions
            /\ torn' = (torn \ {"users"}) \cup {"sessions"}
            /\ UNCHANGED sessions_file
  /\ Advance(IF where = "users" THEN t[1] ELSE t[4])
  /\ call' = Crashed("authenticate", Args(username, password, threshold, cap, t))
  /\ UNCHANGED <<voice_auth_enabled, cipher_key, key_file, uiVars>>

\* register_user whose _save_users fails (lines 96-104): the exception of
\* mkdir or open (file untouched) or of pickle.dump after open(..., 'wb') has
\* emptied the file (emptied) is caught and logged; register_user goes on to
\* its return True (lines 276-287).
RegisterUserSaveFails(username, password, cap, emptied) ==
  \E o \in {RegisterOutcome(users, voice_auth_enabled, username, password, cap, clock)} :
  /\ call.pc = "idle"
  /\ o.saved
  /\ Len(o.users) <= MaxUsers
  /\ users' = o.users
  /\ torn' = IF emptied THEN torn \cup {"users"} ELSE torn
  /\ call' = Returned("register_user", Args(Some(username), password, 0, cap, <<>>),
                      o.ok, None, "error saving users", "")
  /\ UNCHANGED <<sessions, current_user, voice_auth_enabled, cipher_key, users_file,
                 sessions_file, key_file, timeVars, uiVars>>

\* A successful authenticate whose _save_users (where = "users") or whose
\* _save_sessions inside _create_session (where = "sessions") fails: the
\* exception is caught and logged (lines 103-104, 122-123) and authenticate
\* returns the username.
AuthenticateSaveFails(username, password, threshold, cap, t, where, emptied) ==
  \E o \in {AuthenticateOutcome(st, username, password, threshold, cap, t)} :
  /\ call.pc = "idle"
  /\ o.saved_users /\ o.saved_sessions
  /\ Cardinality(DOMAIN o.sessions) <= MaxSessions
  /\ users' = o.users
  /\ sessions' = o.sessions
  /\ current_user' = o.current_user
  /\ IF where = "users"
       THEN /\ sessions_file' = o.sessions
            /\ torn' = (torn \ {"sessions"}) \cup (IF emptied THEN {"users"} ELSE {})
            /\ UNCHANGED users_file
       ELSE /\ users_file' = o.users
            /\ torn' = (torn \ {"users"}) \cup (IF emptied THEN {"sessions"} ELSE {})
            /\ UNCHANGED sessions_file
  /\ Advance(t[4])
  /\ call' = Returned("authenticate", Args(username, password, threshold, cap, t),
                      o.ret # None, o.ret, "error saving " \o where, "")
  /\ UNCHANGED <<voice_auth_enabled, cipher_key, key_file, uiVars>>

\* A second sweep right after a sweep has returned; the clock reads d later.
CleanupAgain(d) ==
  /\ call.pc = "done" /\ call.op = "cleanup_expired_sessions"
  /\ d > 0 => ticks < MaxTicks
  /\ CleanupAt(clock + d, "cleanup_again")
  /\ UNCHANGED uiVars

\* One identity logs in again and again; two enroll where saves are cut short.
StoreNames == {"alice"}
CrashNames == {"alice", "bob"}

InitStore == Init /\ ~voice_auth_enabled

\* The session store over time: logins, sweeps, restarts, a lost key file and
\* records altered on disk.
NextStore ==
  \/ \E d \in TickSteps : Tick(d)
  \/ \E n \in StoreNames : RegisterUser(n, Some("Secret1"), NoCapture)
  \/ \E n \in StoreNames, t \in Instant(4) :
       Authenticate(Some(n), Some("Secret1"), DefaultThreshold, NoCapture, t)
  \/ \E n \in StoreNames, t \in {0, clock} : ValidateSession(n, t)
  \/ CleanupExpiredSessions
  \/ \E d \in {0, 1} : CleanupAgain(d)
  \/ Return
  \/ Restart
  \/ KeyFileRemoved
  \/ \E k \in DOMAIN sessions_file : SessionRecordAltered(k)

SpecStore == InitStore /\ [][NextStore]_vars

\* Runs of the program one after the other over the same config directory.
NextRestart ==
  \/ \E d \in TickSteps : Tick(d)
  \/ \E n \in CrashNames : RegisterUser(n, Some("Secret1"), NoCapture)
  \/ \E n \in CrashNames, t \in Instant(4) :
       Authenticate(Some(n), Some("Secret1"), DefaultThreshold, NoCapture, t)
  \/ Logout
  \/ CleanupExpiredSessions
  \/ \E n \in CrashNames : DeleteUser(n)
  \/ Return
  \/ Restart

SpecRestart == InitStore /\ [][NextRestart]_vars

\* Saves that raise (disk full, permissions) while the program keeps running.
NextSaveFails ==
  \/ \E n \in CrashNames : RegisterUser(n, Some("Secret1"), NoCapture)
  \/ \E n \in CrashNames, t \in Instant(4) :
       Authenticate(Some(n), Some("Secret1"), DefaultThreshold, NoCapture, t)
  \/ Return
  \/ Restart
  \/ \E n \in CrashNames, e \in BOOLEAN :
       RegisterUserSaveFails(n, Some("Secret1"), NoCapture, e)
  \/ \E n \in CrashNames, t \in Instant(4), w \in {"users", "sessions"}, e \in BOOLEAN :
       AuthenticateSaveFails(Some(n), Some("Secret1"), DefaultThreshold, NoCapture, t, w, e)

SpecSaveFails == InitStore /\ [][NextSaveFails]_vars

\* Saves that do not finish: the process dies inside _save_users or
\* _save_sessions and is started again.
NextCrash ==
  \/ \E n \in CrashNames : RegisterUser(n, Some("Secret1"), NoCapture)
  \/ \E n \in CrashNames, t \in Instant(4) :
       Authenticate(Some(n), Some("Secret1"), DefaultThreshold, NoCapture, t)
  \/ \E n \in CrashNames : DeleteUser(n)
  \/ Return
  \/ Restart
  \/ \E n \in CrashNames : RegisterUserCrash(n, Some("Secret1"), NoCapture)
  \/ \E n \in CrashNames, t \in Instant(4), w \in {"users", "sessions"} :
       AuthenticateCrash(Some(n), Some("Secret1"), DefaultThreshold, NoCapture, t, w)

SpecCrash == InitStore /\ [][NextCrash]_vars

\* -------------------------------------------------- the main window
\* _register_user (ui.py lines 217-240): the dialog gave a non-empty name and
\* the thread it starts calls register_user(username, duration=5).
UIRegister(username, cap) ==
  /\ call.pc = "idle"
  /\ buttons.register
  /\ RegisterUserCall(username, None, cap)
  /\ UNCHANGED uiVars

\* _authenticate_user (lines 242-266) starts a thread running authenticate();
\* the login button stays enabled while earlier threads run.  A thread's
\* overtaken mark says that a logout has completed since the thread was
\* started and no login has been requested since that logout.
UILoginClicked(t) ==
  /\ call.pc = "idle"
  /\ buttons.login
  /\ worker[t].pc = "idle"
  /\ \A u \in Threads : u < t => worker[u].pc # "idle"
  /\ worker' = [u \in Threads |->
                  IF u = t THEN [pc |-> "started", overtaken |-> FALSE]
                  ELSE [worker[u] EXCEPT !.overtaken = FALSE]]
  /\ UNCHANGED <<authVars, timeVars, call, ui_is_authenticated, ui_is_listening,
                 buttons, stt_is_listening, pending, enrolling, sweep>>

\* The thread's call (line 248).
WorkerAuthenticate(w, cap, t) ==
  /\ call.pc = "idle"
  /\ worker[w].pc = "started"
  /\ AuthenticateCall(None, None, DefaultThreshold, cap, t)
  /\ worker' = [worker EXCEPT ![w] = IF call'.ret # None
                                       THEN [@ EXCEPT !.pc = "authenticated"]
                                       ELSE NoWorker]
  /\ UNCHANGED <<ui_is_authenticated, ui_is_listening, buttons, stt_is_listening, pending, enrolling, sweep>>

\* The thread's `if username:` branch (lines 249-260).
WorkerSetFlag(w) ==
  /\ call.pc = "idle"
  /\ worker[w].pc = "authenticated"
  /\ ui_is_authenticated' = TRUE
  /\ buttons' = [buttons EXCEPT !.start = TRUE, !.logout = TRUE,
                                !.login = FALSE, !.register = FALSE]
  /\ worker' = [worker EXCEPT ![w] = NoWorker]
  /\ UNCHANGED <<authVars, timeVars, call, ui_is_listening, stt_is_listening, pending, enrolling, sweep>>

\* _logout_user (lines 268-281).
UILogout ==
  /\ call.pc = "idle"
  /\ buttons.logout
  /\ LogoutCall
  /\ ui_is_authenticated' = FALSE
  /\ buttons' = [buttons EXCEPT !.start = FALSE, !.logout = FALSE,
                                !.login = TRUE, !.register = TRUE]
  /\ worker' = [u \in Threads |->
                  [worker[u] EXCEPT !.overtaken = (worker[u].pc # "idle")]]
  /\ UNCHANGED <<ui_is_listening, stt_is_listening, pending, enrolling, sweep>>

\* _start_listening (lines 283-306); model_loaded is stt_manager.is_model_loaded().
UIStartListening(model_loaded) ==
  /\ call.pc = "idle"
  /\ buttons.start
  /\ IF ui_is_authenticated /\ model_loaded
       THEN /\ ui_is_listening' = TRUE
            /\ buttons' = [buttons EXCEPT !.start = FALSE, !.stop = TRUE]
            /\ stt_is_listening' = TRUE
       ELSE UNCHANGED <<ui_is_listening, buttons, stt_is_listening>>
  /\ UNCHANGED <<authVars, timeVars, call, ui_is_authenticated, worker, pending, enrolling, sweep>>

\* _stop_listening (lines 308-317).
UIStopListening ==
  /\ call.pc = "idle"
  /\ buttons.stop
  /\ ui_is_listening' = FALSE
  /\ stt_is_listening' = FALSE
  /\ buttons' = [buttons EXCEPT !.start = TRUE, !.stop = FALSE]
  /\ UNCHANGED <<authVars, timeVars, call, ui_is_authenticated, worker, pending, enrolling, sweep>>

\* The listening loop hears a phrase (stt.py lines 92-101) and
\* _on_speech_recognized queues the command_recognized signal (ui.py 319-321).
SpeechRecognized ==
  /\ call.pc = "idle"
  /\ stt_is_listening
  /\ pending < 1
  /\ pending' = pending + 1
  /\ UNCHANGED <<authVars, timeVars, call, ui_is_authenticated, ui_is_listening,
                 buttons, stt_is_listening, worker, enrolling, sweep>>

\* _handle_command (lines 323-343): the text, typed or spoken, parses to a
\* command or not.
HandleCommand(source, parses) ==
  /\ call' = IF parses
               THEN Returned("executor.execute", NoArgs, TRUE, None, source, "")
               ELSE Returned("_handle_command", NoArgs, FALSE, None, source, "")
  /\ UNCHANGED <<authVars, timeVars>>

\* The main thread delivers a queued command_recognized signal.
UIRecognizedCommand(parses) ==
  /\ call.pc = "idle"
  /\ pending > 0
  /\ pending' = pending - 1
  /\ HandleCommand("speech", parses)
  /\ UNCHANGED <<ui_is_authenticated, ui_is_listening, buttons, stt_is_listening, worker, enrolling, sweep>>

\* _execute_manual_command (lines 345-350) with a non-empty text.
UIManualCommand(parses) ==
  /\ call.pc = "idle"
  /\ HandleCommand("typed", parses)
  /\ UNCHANGED uiVars

\* The cleanup timer of main.py (lines 193-196).
UICleanupTimer ==
  /\ call.pc = "idle"
  /\ CleanupCall
  /\ UNCHANGED uiVars

UITick(d) ==
  /\ call.pc = "idle"
  /\ ticks < MaxTicks
  /\ Advance(clock + d)
  /\ UNCHANGED <<authVars, call, uiVars>>

UINames == {"alice", "bob"}

\* What the microphone delivers to the window's threads: nothing, an enrolled
\* voice, or a voice nobody enrolled.
UICaptures == {NoCapture, Good(<<10, 0>>), Good(<<0, 10>>)}

NextUI ==
  \/ \E n \in UINames, c \in UICaptures \ {Good(<<0, 10>>)} : UIRegister(n, c)
  \/ \E w \in Threads : UILoginClicked(w)
  \/ \E w \in Threads, c \in UICaptures, t \in Instant(4) : WorkerAuthenticate(w, c, t)
  \/ \E w \in Threads : WorkerSetFlag(w)
  \/ UILogout
  \/ \E m \in BOOLEAN : UIStartListening(m)
  \/ UIStopListening
  \/ SpeechRecognized
  \/ \E x \in BOOLEAN : UIRecognizedCommand(x)
  \/ \E x \in BOOLEAN : UIManualCommand(x)
  \/ UICleanupTimer
  \/ \E d \in TickSteps : UITick(d)
  \/ Return

SpecUI == Init /\ [][NextUI]_vars

\* ------------------------- the sweep, statement by statement
\* cleanup_expired_sessions (auth.py lines 436-455) run by the cleanup timer
\* on the main thread while authenticate threads run: `now = datetime.now()`
\* and the creation of the self.sessions.items() iterator.
SweepBegin ==
  /\ sweep.pc = "idle"
  /\ sweep' = SweepFrame("iterating", clock, Cardinality(DOMAIN sessions),
                         DOMAIN sessions, {}, sessions)
  /\ UNCHANGED <<authVars, timeVars, call, ui_is_authenticated, ui_is_listening,
                 buttons, stt_is_listening, worker, pending, enrolling>>

\* One step of the for loop (lines 441-448): the iterator raises RuntimeError
\* when the dict has changed size since it was created, and the exception
\* leaves the method (the try is inside the loop body); otherwise the next
\* record is checked, or the loop ends and lines 450-455 delete and save.
SweepNext ==
  /\ sweep.pc = "iterating"
  /\ IF Cardinality(DOMAIN sessions) # sweep.size
       THEN /\ sweep' = [sweep EXCEPT !.pc = "raised"]
            /\ UNCHANGED <<sessions, sessions_file, torn>>
       ELSE IF sweep.todo # {}
         THEN /\ \E k \in sweep.todo :
                   sweep' = [sweep EXCEPT
                     !.todo = @ \ {k},
                     !.expired = @ \cup (ExpiredIds(sessions, cipher_key, sweep.now) \cap {k})]
              /\ UNCHANGED <<sessions, sessions_file, torn>>
         ELSE /\ sweep' = [sweep EXCEPT !.pc = "done"]
              /\ sessions' = Without(sessions, sweep.expired)
              /\ sessions_file' = IF sweep.expired # {}
                                    THEN Without(sessions, sweep.expired)
                                    ELSE sessions_file
              /\ torn' = IF sweep.expired # {} THEN torn \ {"sessions"} ELSE torn
  /\ UNCHANGED <<users, current_user, voice_auth_enabled, cipher_key, users_file,
                 key_file, timeVars, call, ui_is_authenticated, ui_is_listening,
                 buttons, stt_is_listening, worker, pending, enrolling>>

\* The timer's slot is over: the method returned, or its exception reached
\* the event loop.
SweepEnd ==
  /\ sweep.pc \in {"done", "raised"}
  /\ sweep' = NoSweep
  /\ UNCHANGED <<authVars, timeVars, call, ui_is_authenticated, ui_is_listening,
                 buttons, stt_is_listening, worker, pending, enrolling>>

\* The main thread runs one slot at a time: clicks wait while the sweep runs;
\* the authenticate threads do not.
NextSweep ==
  \/ sweep.pc = "idle" /\ \E n \in UINames : UIRegister(n, Good(<<10, 0>>))
  \/ sweep.pc = "idle" /\ \E w \in Threads : UILoginClicked(w)
  \/ \E w \in Threads, c \in UICaptures, t \in Instant(4) : WorkerAuthenticate(w, c, t)
  \/ \E w \in Threads : WorkerSetFlag(w)
  \/ sweep.pc = "idle" /\ UILogout
  \/ \E d \in TickSteps : UITick(d)
  \/ Return
  \/ SweepBegin
  \/ SweepNext
  \/ SweepEnd

SpecSweep == Init /\ [][NextSweep]_vars

\* ------------------------------------ register_user on worker threads
\* _register_user (ui.py lines 217-240) starts one thread per click; the
\* Register button stays enabled while a thread is recording.
EnrollStart(t, username) ==
  /\ buttons.register
  /\ enrolling[t].pc = "none"
  /\ enrolling' = [enrolling EXCEPT ![t] = [NoEnroll EXCEPT !.pc = "check", !.username = username]]
  /\ UNCHANGED <<authVars, timeVars, call, ui_is_authenticated, ui_is_listening,
                 buttons, stt_is_listening, worker, pending, sweep>>

\* The thread's `if username in self.users` (auth.py lines 220-223) and the
\* choice of method (line 227; the window passes no password).
EnrollCheck(t) ==
  /\ enrolling[t].pc = "check"
  /\ enrolling' = [enrolling EXCEPT ![t].pc =
         IF HasUser(users, enrolling[t].username) \/ ~voice_auth_enabled
           THEN "done" ELSE "record"]
  /\ UNCHANGED <<authVars, timeVars, call, ui_is_authenticated, ui_is_listening,
                 buttons, stt_is_listening, worker, pending, sweep>>

\* The thread records and embeds its sample (lines 232-242).
EnrollRecord(t, cap) ==
  /\ enrolling[t].pc = "record"
  /\ enrolling' = [enrolling EXCEPT ![t] =
         IF RecordVoiceSample(voice_auth_enabled, cap) = None \/ ~cap.encoder_ok
           THEN [@ EXCEPT !.pc = "done"]
           ELSE [@ EXCEPT !.pc = "store", !.emb = cap.emb]]
  /\ UNCHANGED <<authVars, timeVars, call, ui_is_authenticated, ui_is_listening,
                 buttons, stt_is_listening, worker, pending, sweep>>

\* The thread stores its record and saves (lines 245-258).
EnrollStore(t) ==
  \E us \in {PutUser(users, VoiceRecord(enrolling[t].username, enrolling[t].emb, clock))} :
  /\ enrolling[t].pc = "store"
  /\ Len(us) <= MaxUsers
  /\ users' = us
  /\ users_file' = us
  /\ torn' = torn \ {"users"}
  /\ enrolling' = [enrolling EXCEPT ![t].pc = "done", ![t].ok = TRUE]
  /\ UNCHANGED <<sessions, current_user, voice_auth_enabled, cipher_key, sessions_file,
                 key_file, timeVars, call, ui_is_authenticated, ui_is_listening,
                 buttons, stt_is_listening, worker, pending, sweep>>

\* The thread has reported its result (lines 232-237) and ended.
EnrollEnd(t) ==
  /\ enrolling[t].pc = "done"
  /\ enrolling' = [enrolling EXCEPT ![t] = NoEnroll]
  /\ UNCHANGED <<authVars, timeVars, call, ui_is_authenticated, ui_is_listening,
                 buttons, stt_is_listening, worker, pending, sweep>>

NextEnroll ==
  \/ \E t \in Threads, n \in UINames : EnrollStart(t, n)
  \/ \E t \in Threads : EnrollCheck(t)
  \/ \E t \in Threads, c \in EnrollCaptures : EnrollRecord(t, c)
  \/ \E t \in Threads : EnrollStore(t)
  \/ \E t \in Threads : EnrollEnd(t)

SpecEnroll == Init /\ [][NextEnroll]_vars

\* ------------------------------------------------------------- claims
Done(op) == call.pc = "done" /\ call.op = op

VoiceIndices(us) == {i \in 1..Len(us) : us[i].auth_type = "voice"}
VoiceNames(us) == {us[i].name : i \in VoiceIndices(us)}

\* The call left the stores, their files and the current identity alone.
NothingChanged ==
  /\ users = call.pre.users
  /\ sessions = call.pre.sessions
  /\ current_user = call.pre.current_user
  /\ users_file = call.pre.users_file
  /\ sessions_file = call.pre.sessions_file

\* C1: register_user of a name that is already in the credential store fails
\* ("already exists") and leaves every stored record as it was.
C1_EnrollExistingFails ==
  (Done("register_user") /\ HasUser(call.pre.users, call.args.username[1]))
    => (~call.ok /\ call.log = "already exists" /\ NothingChanged)

\* Two names are enrolled and a further enroll of one of them has just failed.
C1_Witness ==
  /\ Done("register_user")
  /\ HasUser(call.pre.users, call.args.username[1])
  /\ Len(users) = 2
  /\ ~call.ok

\* The capture of the call delivered a sample and the encoder an embedding.
CaptureWorked ==
  /\ voice_auth_enabled
  /\ RecordVoiceSample(voice_auth_enabled, call.args.cap) # None
  /\ call.args.cap.encoder_ok

\* The best similarity of the sample over the Voice-kind records.
Scores(us, emb) == {Dot(emb, us[i].embedding[1]) : i \in VoiceIndices(us)}
TopScore(us, emb) == CHOOSE x \in Scores(us, emb) : \A y \in Scores(us, emb) : y <= x

\* C2: voice matching over a store with Voice-kind records returns an identity
\* exactly when the best similarity s reaches the threshold t (s >= t), for
\* every s and t of the scale, and the identity returned scores s.
C2_AcceptIffScoreReachesThreshold ==
  (/\ Done("authenticate")
   /\ call.args.username = None /\ call.args.password = None
   /\ CaptureWorked
   /\ VoiceNames(call.pre.users) # {})
    => /\ call.ret # None <=>
            TopScore(call.pre.users, call.args.cap.emb) >= call.args.threshold
       /\ call.ret # None =>
            /\ call.ret[1] \in VoiceNames(call.pre.users)
            /\ Dot(call.args.cap.emb, GetUser(call.pre.users, call.ret[1]).embedding[1])
                 = TopScore(call.pre.users, call.args.cap.emb)

\* C4: authenticate with a name and a password (both non-empty), the name
\* being enrolled with Voice kind, returns no identity, creates no session and
\* leaves the current identity alone.
C4_WrongAuthKindFails ==
  (/\ Done("authenticate")
   /\ Truthy(call.args.username) /\ Truthy(call.args.password)
   /\ call.args.username[1] \in VoiceNames(call.pre.users))
    => (call.ret = None /\ sessions = call.pre.sessions
        /\ current_user = call.pre.current_user)

\* C5: a successful authenticate adds exactly one key to the session store,
\* the new record names the identity returned, and its last_login is set.
C5_OneNewSessionPerLogin ==
  (Done("authenticate") /\ call.ret # None)
    => /\ Cardinality(DOMAIN sessions) = Cardinality(DOMAIN call.pre.sessions) + 1
       /\ \A k \in DOMAIN sessions \ DOMAIN call.pre.sessions :
            sessions[k].data.username = call.ret[1]
       /\ GetUser(users, call.ret[1]).last_login # None

\* C6: validate of a session id reports valid or invalid without raising, and
\* reports valid only for a key of the session store.
C6_ValidateNeverRaises ==
  Done("validate_session")
    => /\ call.raised = ""
       /\ call.ok => SessionId(call.args.username[1], call.args.t[1]) \in DOMAIN sessions

\* C7: creating a session returns a session id (not None).
C7_CreateReturnsSessionId ==
  Done("_create_session") => call.ret # None

\* C8: an authenticate or register_user call that fails leaves the current
\* identity, the credential store and the session store as they were.
C8_FailureLeavesStateAlone ==
  ((Done("authenticate") \/ Done("register_user")) /\ ~call.ok) => NothingChanged

\* C9: with no Voice-kind record in the store, a voice authentication attempt
\* returns no identity and creates no session, whatever the threshold.
C9_NoVoiceRecordsFails ==
  (/\ Done("authenticate")
   /\ ~(Truthy(call.args.username) /\ Truthy(call.args.password))
   /\ VoiceNames(call.pre.users) = {})
    => (call.ret = None /\ ~call.ok /\ sessions = call.pre.sessions
        /\ sessions_file = call.pre.sessions_file)

\* Only Password-kind identities are enrolled, the capture worked, and the
\* threshold of the voice attempt was at most 0.
C9_Witness ==
  /\ Done("authenticate")
  /\ call.args.username = None
  /\ CaptureWorked
  /\ call.args.threshold <= 0
  /\ call.pre.users # <<>>
  /\ VoiceNames(call.pre.users) = {}

\* The passwords a Password-kind record accepts.
PasswordsOf(rec) == {p \in Passwords : Some(HashPassword(p)) = rec.password_hash}

\* C10: for an identity enrolled with password P, authenticate(name, Q) returns
\* the identity exactly when Q = P; any other Q returns nothing and creates
\* no session.
C10_PasswordExact ==
  (/\ Done("authenticate")
   /\ call.args.username # None /\ call.args.password # None
   /\ HasUser(call.pre.users, call.args.username[1])
   /\ GetUser(call.pre.users, call.args.username[1]).auth_type = "password")
    => LET P == PasswordsOf(GetUser(call.pre.users, call.args.username[1]))
           Q == call.args.password[1]
       IN /\ Cardinality(P) = 1
          /\ Q \in P => call.ret = call.args.username
          /\ Q \notin P => (call.ret = None /\ sessions = call.pre.sessions)

\* C3: a command is handed to the executor only while is_authenticated() holds.
C3_NoCommandWhileAnonymous ==
  Done("executor.execute") => call.pre.current_user # None

\* The session records of identity n in store ss (n an Optional name).
SessionsOf(ss, n) == {k \in DOMAIN ss : n # None /\ ss[k].data.username = n[1]}

\* The calls after which the current identity is not the one before the call.
IdentityMoved == current_user # call.pre.current_user

\* C11: the current identity follows the stated machine: a successful
\* register_user or authenticate made while Anonymous leaves the caller
\* authenticated as that identity, logout leaves Anonymous, a sweep that removes
\* a session of the current identity leaves Anonymous, and a failed
\* authenticate or register_user, delete_user, and a sweep that removes no
\* session of the current identity leave the current identity as it was.
C11_StateMachine ==
  /\ (Done("register_user") /\ call.ok /\ call.pre.current_user = None)
       => current_user = call.args.username
  /\ (Done("authenticate") /\ call.ok) => current_user = call.ret
  /\ Done("logout") => current_user = None
  /\ ((Done("authenticate") \/ Done("register_user")) /\ ~call.ok) => ~IdentityMoved
  /\ Done("delete_user") => ~IdentityMoved
  /\ Done("cleanup_expired_sessions") =>
       IF SessionsOf(call.pre.sessions, call.pre.current_user) \subseteq DOMAIN sessions
         THEN ~IdentityMoved
         ELSE current_user = None

\* C12: logout leaves the current identity none and changes nothing else: the
\* credential store, the session store and both files are as before, and every
\* session record that existed is still there.
C12_LogoutClearsOnlyIdentity ==
  Done("logout")
    => /\ current_user = None
       /\ users = call.pre.users
       /\ sessions = call.pre.sessions
       /\ users_file = call.pre.users_file
       /\ sessions_file = call.pre.sessions_file
       /\ DOMAIN call.pre.sessions \subseteq DOMAIN sessions

\* The token opens under the key in use and was not altered.
Opens(token) == token.key = cipher_key /\ token.intact

\* The records of store ss a sweep reading the clock as now has to remove.
DueAt(ss, now) == {k \in DOMAIN ss : ~Opens(ss[k]) \/ ss[k].data.expires_at < now}

\* The sweep removed exactly the records due and kept the others as they were.
SweptExactly ==
  /\ DOMAIN sessions = DOMAIN call.pre.sessions \ DueAt(call.pre.sessions, call.args.t[1])
  /\ \A k \in DOMAIN sessions : sessions[k] = call.pre.sessions[k]

\* C13 as stated: cleanup_expired_sessions removes exactly the records that
\* are expired (expires_at < now) or fail to decrypt, keeps every other record
\* unchanged, and returns the number of records it removed.
C13_SweepExactAndCounted ==
  Done("cleanup_expired_sessions")
    => /\ SweptExactly
       /\ call.ret = Some(Cardinality(DueAt(call.pre.sessions, call.args.t[1])))

\* C13 as amended: cleanup_expired_sessions removes exactly the records that
\* are expired or fail to decrypt, keeps every other record unchanged, saves
\* the store when it removed something, and returns nothing (None).
C13_SweepExact ==
  Done("cleanup_expired_sessions")
    => /\ SweptExactly
       /\ call.ret = None
       /\ DOMAIN sessions # DOMAIN call.pre.sessions => sessions_file = sessions

\* A sweep has removed one record and kept another that expires at this very
\* clock reading.
C13_Witness ==
  /\ Done("cleanup_expired_sessions")
  /\ DOMAIN call.pre.sessions \ DOMAIN sessions # {}
  /\ \E k \in DOMAIN sessions : sessions[k].data.expires_at = call.args.t[1]

\* C14 as stated: a second sweep right after a first one, no session created
\* in between, removes nothing.
C14_SecondSweepRemovesNothing ==
  Done("cleanup_again") => sessions = call.pre.sessions

\* C14 as amended: a second sweep right after a first one removes nothing and
\* saves nothing, provided no record the first sweep kept has expired by the
\* clock reading of the second.
C14_SecondSweepRemovesNothingUnlessExpired ==
  (/\ Done("cleanup_again")
   /\ \A k \in DOMAIN call.pre.sessions :
        call.pre.sessions[k].data.expires_at >= call.args.t[1])
    => (sessions = call.pre.sessions /\ sessions_file = call.pre.sessions_file)

\* The second sweep ran at a later clock reading over a store that the first
\* sweep left non-empty, none of whose records had expired by then.
C14_Witness ==
  /\ Done("cleanup_again")
  /\ call.args.t[1] > call.pre.clock
  /\ DOMAIN call.pre.sessions # {}
  /\ \A k \in DOMAIN call.pre.sessions :
       call.pre.sessions[k].data.expires_at >= call.args.t[1]

\* C15: a session record that does not decrypt is reported invalid by
\* validate_session without raising, and a sweep purges it without raising
\* while keeping every record that decrypts and has not expired.
C15_CorruptRecordIsInvalid ==
  /\ (/\ Done("validate_session")
      /\ SessionId(call.args.username[1], call.args.t[1]) \in DOMAIN sessions
      /\ ~Opens(sessions[SessionId(call.args.username[1], call.args.t[1])]))
       => (call.raised = "" /\ ~call.ok)
  /\ Done("cleanup_expired_sessions")
       => /\ call.raised = ""
          /\ \A k \in DOMAIN call.pre.sessions :
               /\ ~Opens(call.pre.sessions[k]) => k \notin DOMAIN sessions
               /\ (Opens(call.pre.sessions[k])
                    /\ call.pre.sessions[k].data.expires_at >= call.args.t[1])
                     => k \in DOMAIN sessions

\* C16: every stored session record has expires_at > created_at, and no call
\* changes the record stored under a session id that stays in the store.
C16_SessionRecordsImmutable ==
  /\ \A k \in DOMAIN sessions : sessions[k].data.expires_at > sessions[k].data.created_at
  /\ call.pc = "done"
       => \A k \in DOMAIN call.pre.sessions \cap DOMAIN sessions :
            sessions[k] = call.pre.sessions[k]

\* C17: every stored session record has expires_at = created_at + session_timeout.
C17_ExpiresIsCreatedPlusTimeout ==
  \A k \in DOMAIN sessions :
    sessions[k].data.expires_at = sessions[k].data.created_at + session_timeout

\* The session id a call that creates a session has used.
CreatedId ==
  IF call.op = "authenticate"
    THEN SessionId(call.ret[1], call.args.t[2])
    ELSE SessionId(call.args.username[1], call.args.t[1])

\* C18: a session creation never lands on a key that is already in the store.
C18_SessionIdsUnique ==
  ((Done("authenticate") /\ call.ok) \/ Done("_create_session"))
    => CreatedId \notin DOMAIN call.pre.sessions

\* C19: of two register_user threads for the same name that have both ended,
\* at most one has succeeded, and the stored record is the one it wrote.
C19_EnrollsAreSerialized ==
  \A a \in Threads, b \in Threads :
    (/\ a # b
     /\ enrolling[a].pc = "done" /\ enrolling[b].pc = "done"
     /\ enrolling[a].username = enrolling[b].username
     /\ enrolling[a].ok)
      => /\ ~enrolling[b].ok
         /\ GetUser(users, enrolling[a].username).embedding = Some(enrolling[a].emb)

\* C20: after a restart, whether or not the process died inside a save, each
\* store loaded is either the complete content its file had before the save
\* or the complete content that was being written.
C20_SaveIsAtomic ==
  Done("__init__")
    => /\ users \in {call.pre.users_file, call.pre.users}
       /\ sessions \in {call.pre.sessions_file, call.pre.sessions}

\* The call asked for a voice sample and the capture delivered none: the
\* device failed or the recording was near-silent.
CaptureFailed ==
  /\ voice_auth_enabled
  /\ ~call.args.cap.device_ok \/ call.args.cap.max_level < SilenceFloor
  /\ \/ Done("register_user") /\ call.args.password = None
        /\ ~HasUser(call.pre.users, call.args.username[1])
     \/ Done("authenticate") /\ call.pre.users # <<>>
        /\ ~(Truthy(call.args.username) /\ Truthy(call.args.password))

VoiceAccepted ==
  /\ Done("authenticate") /\ call.ret # None
  /\ ~(/\ Truthy(call.args.username) /\ Truthy(call.args.password)
        /\ HasUser(call.pre.users, call.args.username[1])
        /\ GetUser(call.pre.users, call.args.username[1]).auth_type = "password")

\* C25: when voice matching accepts, the identity returned is a Voice-kind
\* record whose similarity to the sample is the maximum over the Voice-kind
\* records, and no Voice-kind record before it in the store scores as much.
C25_FirstMaximumWins ==
  VoiceAccepted
    => LET us == call.pre.users
           emb == call.args.cap.emb
           w == IndexOf(us, call.ret[1])
       IN /\ call.ret[1] \in VoiceNames(us)
          /\ Dot(emb, us[w].embedding[1]) = TopScore(us, emb)
          /\ \A i \in VoiceIndices(us) : i < w => Dot(emb, us[i].embedding[1]) < TopScore(us, emb)

\* Voice matching accepted with two Voice-kind records tied at the maximum.
C25_Witness ==
  /\ VoiceAccepted
  /\ \E i \in VoiceIndices(call.pre.users), j \in VoiceIndices(call.pre.users) :
       /\ i # j
       /\ Dot(call.args.cap.emb, call.pre.users[i].embedding[1])
            = TopScore(call.pre.users, call.args.cap.emb)
       /\ Dot(call.args.cap.emb, call.pre.users[j].embedding[1])
            = TopScore(call.pre.users, call.args.cap.emb)

\* C26: every name in the credential store is a non-empty string.
C26_NamesNonEmpty ==
  \A i \in 1..Len(users) : users[i].name # ""

\* C27: while is_authenticated() holds, the session store has a record of the
\* current identity that decrypts and has not expired.
C27_IdentityBackedBySession ==
  is_authenticated
    => \E k \in SessionsOf(sessions, current_user) :
         Opens(sessions[k]) /\ sessions[k].data.expires_at >= clock

\* C30: the current identity, when set, is a name of the credential store.
C30_IdentityIsEnrolled ==
  is_authenticated => HasUser(users, current_user[1])

\* A mutating operation has just completed: a successful register_user,
\* authenticate or delete_user, or a sweep that removed records.
MutationCompleted ==
  \/ (Done("register_user") \/ Done("authenticate") \/ Done("delete_user")) /\ call.ok
  \/ Done("cleanup_expired_sessions") /\ sessions # call.pre.sessions

\* C21: after every completed mutating operation both files hold exactly the
\* in-memory stores, and a restart loads exactly the stores the program had.
C21_DurableEqualsMemory ==
  /\ MutationCompleted => (users_file = users /\ sessions_file = sessions /\ torn = {})
  /\ Done("__init__") => (users = call.pre.users /\ sessions = call.pre.sessions)

\* A restart has loaded a credential store and a session store that are both
\* non-empty and equal to the stores of the run before.
C21_Witness ==
  /\ Done("__init__")
  /\ users # <<>> /\ DOMAIN sessions # {}
  /\ users = call.pre.users /\ sessions = call.pre.sessions
  /\ \E i \in 1..Len(users) : users[i].last_login # None

\* C23: the key in use is the key of the first run and config/.key holds it;
\* every stored session record decrypts under it, and a sweep removes only
\* records that have expired.
C23_KeyNeverChanges ==
  /\ cipher_key = 1 /\ key_file = Some(cipher_key)
  /\ \A k \in DOMAIN sessions : Opens(sessions[k])
  /\ Done("cleanup_expired_sessions")
       => \A k \in DOMAIN call.pre.sessions \ DOMAIN sessions :
            call.pre.sessions[k].data.expires_at < call.args.t[1]

\* A restart, some time after a login, has loaded the session record of that
\* login: it decrypts under the key read from config/.key and has not expired.
C23_Witness ==
  /\ Done("__init__")
  /\ cipher_key = 1
  /\ \E k \in DOMAIN sessions :
       /\ Opens(sessions[k])
       /\ sessions[k].data.created_at < clock
       /\ sessions[k].data.expires_at >= clock

\* A register_user or authenticate during which a save raised.
SaveFailed ==
  /\ Done("register_user") \/ Done("authenticate")
  /\ call.log \in {"error saving users", "error saving sessions"}

\* C22: a call during which persisting a store failed does not report
\* success, does not raise into the caller, and keeps its in-memory mutation.
C22_SaveFailureIsSurfaced ==
  SaveFailed
    => /\ ~call.ok
       /\ call.raised = ""
       /\ HasUser(users, call.args.username[1])
       /\ users # users_file \/ sessions # sessions_file \/ torn # {}

\* C28: a step of an authentication thread that a logout has overtaken
\* changes neither the current identity nor the window's authenticated flag
\* to true.
C28_OvertakenWorkerSetsNothing ==
  [][\A w \in Threads :
       (worker[w].overtaken /\ worker'[w] # worker[w] /\ worker'[w].pc # worker[w].pc)
         => /\ current_user' = current_user
            /\ ui_is_authenticated' => ui_is_authenticated]_vars

\* C29: a sweep never ends in an exception; a sweep that has completed
\* removed only records that were expired or undecryptable, and the session
\* file then holds every session in memory, those created meanwhile included.
C29_SweepBesideLoginCompletes ==
  /\ sweep.pc # "raised"
  /\ sweep.pc = "done"
       => /\ \A k \in sweep.expired :
               ~Opens(sweep.before[k]) \/ sweep.before[k].data.expires_at < sweep.now
          /\ sessions_file = sessions

\* C31: every identity the program held as enrolled when it stopped is in
\* the credential store the next run loads, also after a save that failed or
\* a users file left partly written.
C31_EnrollmentSurvivesRestart ==
  Done("__init__")
    => \A n \in CrashNames : HasUser(call.pre.users, n) => HasUser(users, n)

\* C32: every session record that decrypts names an identity of the
\* credential store.
C32_SessionsNameEnrolledIdentities ==
  \A k \in DOMAIN sessions :
    Opens(sessions[k]) => HasUser(users, sessions[k].data.username)
====
